---- MODULE Spec2Model ----
(***************************************************************************)
(* Model of scripts/add_string_extension_to_xcode.py: the script that      *)
(* registers String+AudioFile.swift in MindSync.xcodeproj/project.pbxproj. *)
(*                                                                         *)
(* A file's content is a sequence of tokens.  The three literal anchors    *)
(* are one token each; the Extensions-group anchor, which is a genuine     *)
(* regular expression with three \s+ parts, is matched token by token.     *)
(* Line terminators are the tokens CR and LF, so that the text-mode        *)
(* reading of Path.read_text (universal newlines) is modelled by what it   *)
(* does.  Every file operation may raise; a write may raise before the     *)
(* file is opened (nothing changes) or after it was truncated (a prefix of *)
(* the data is left on disk).                                              *)
(***************************************************************************)
EXTENDS Integers, Sequences, FiniteSets, TLC

VARIABLES
    pc,               \* position of the script
    pbxproj_exists,   \* the descriptor file exists
    pbxproj,          \* the descriptor's on-disk content
    backup_exists,    \* the file project.pbxproj.backup exists
    backup,           \* its on-disk content
    tmp,              \* the text between a read_text and the write_text it feeds (lines 73, 81)
    content,          \* local variable content of add_file_to_project
    build_file_id,    \* local variable build_file_id
    file_ref_id,      \* local variable file_ref_id
    exit_status,      \* exit status of the process, Running until it ends
    run,              \* number of the current invocation
    first,            \* history: pbxproj when the first invocation started
    orig_exists,      \* history: pbxproj_exists when this invocation started
    orig,             \* history: pbxproj when this invocation started
    orig_backup_exists, \* history: backup_exists when this invocation started
    orig_backup,      \* history: backup when this invocation started
    writes,           \* history: the files this invocation has modified, in order
    called,           \* history: add_file_to_project was called
    raised            \* history: a step of add_file_to_project raised

vars == <<pc, pbxproj_exists, pbxproj, backup_exists, backup, tmp, content,
          build_file_id, file_ref_id, exit_status, run, first, orig_exists, orig,
          orig_backup_exists, orig_backup, writes, called, raised>>

-----------------------------------------------------------------------------
(* Bounds *)

\* longest descriptor of an initial state, in lines
MaxLines == 3

\* longest prefix a failed write leaves on disk, in tokens
MaxPartial == 1

\* number of invocations in succession (SpecRerun)
MaxRuns == 2

-----------------------------------------------------------------------------
(* Tokens *)

NoId == "none"

\* the outcomes of generate_xcode_id that the model distinguishes
Ids == {"ID_1", "ID_2"}

Tok(k) == [k |-> k, id |-> NoId, ref |-> NoId]

LF == Tok("\\n")
CR == Tok("\\r")
\* the tabs that indent a line
TAB == Tok("\\t")
\* any text that is part of no anchor
X == Tok("other text")
\* 'BA06811D2EFB013D0035F5B8 /* Color+MindSync.swift in Sources */ = {isa = PBXBuildFile; ... };'
A1 == Tok("anchor: Color+MindSync.swift build file")
\* 'BA06810E2EFB013D0035F5B8 /* View+Gestures.swift */ = {isa = PBXFileReference; ... };'
A2 == Tok("anchor: View+Gestures.swift file reference")
\* '/* Extensions */ = {'
GH == Tok("/* Extensions */ = {")
\* 'isa = PBXGroup;'
ISA == Tok("isa = PBXGroup;")
\* 'children = ('
CH == Tok("children = (")
\* 'BA06810D2EFB013D0035F5B8 /* Color+MindSync.swift */,'
CM == Tok("BA06810D2EFB013D0035F5B8 /* Color+MindSync.swift */,")
\* 'BA0681292EFB013D0035F5B8 /* View+Gestures.swift in Sources */,'
A4 == Tok("anchor: View+Gestures.swift in Sources")
\* the pattern element \s+
SPLUS == Tok("\\s+")

IsSpace(t) == t \in {LF, CR, TAB}

-----------------------------------------------------------------------------
(* Path.read_text and Path.write_text *)

\* Path.read_text opens the file in text mode with newline=None (universal
\* newlines): each "\r\n" and each remaining "\r" is read as "\n".
RECURSIVE ReadText(_)
ReadText(bytes) ==
    IF bytes = <<>> THEN <<>>
    ELSE IF Head(bytes) = CR
         THEN IF Len(bytes) > 1 /\ bytes[2] = LF
              THEN <<LF>> \o ReadText(SubSeq(bytes, 3, Len(bytes)))
              ELSE <<LF>> \o ReadText(Tail(bytes))
         ELSE <<Head(bytes)>> \o ReadText(Tail(bytes))

\* os.linesep on the platform of an Xcode project
linesep == <<LF>>

\* Path.write_text opens the file in text mode with newline=None: each "\n" of
\* the text is written as os.linesep, every other character as it is.
RECURSIVE WriteText(_)
WriteText(text) ==
    IF text = <<>> THEN <<>>
    ELSE (IF Head(text) = LF THEN linesep ELSE <<Head(text)>>) \o WriteText(Tail(text))

Min(a, b) == IF a <= b THEN a ELSE b

\* What a write_text that raises after truncating the file can leave on disk.
PartialWrites(text) ==
    {SubSeq(WriteText(text), 1, n) : n \in 0..Min(MaxPartial, Len(WriteText(text)))}

-----------------------------------------------------------------------------
(* re.sub *)

\* Index just past the match of pattern p that starts at index i of s; 0 when
\* p does not match there.  \s+ is greedy and backtracks.
RECURSIVE MatchAt(_, _, _)
MatchAt(s, i, p) ==
    IF p = <<>> THEN i
    ELSE IF i > Len(s) THEN 0
    ELSE IF Head(p) = SPLUS
         THEN IF IsSpace(s[i])
              THEN LET more == MatchAt(s, i + 1, p)
                   IN  IF more # 0 THEN more ELSE MatchAt(s, i + 1, Tail(p))
              ELSE 0
         ELSE IF s[i] = Head(p) THEN MatchAt(s, i + 1, Tail(p)) ELSE 0

\* ReSubFrom with the replacement template repl + r'\1': the entry is put
\* before the anchor
RECURSIVE ReSubFrom_before(_, _, _, _)
ReSubFrom_before(p, repl, s, i) ==
    IF i > Len(s) THEN <<>>
    ELSE LET e == MatchAt(s, i, p)
         IN  IF e # 0
             THEN repl \o SubSeq(s, i, e - 1) \o ReSubFrom_before(p, repl, s, e)
             ELSE <<s[i]>> \o ReSubFrom_before(p, repl, s, i + 1)

\* ReSubFrom with the replacement template repl alone, without r'\1': the
\* entry takes the place of the anchor
RECURSIVE ReSubFrom_replace(_, _, _, _)
ReSubFrom_replace(p, repl, s, i) ==
    IF i > Len(s) THEN <<>>
    ELSE LET e == MatchAt(s, i, p)
         IN  IF e # 0
             THEN repl \o ReSubFrom_replace(p, repl, s, e)
             ELSE <<s[i]>> \o ReSubFrom_replace(p, repl, s, i + 1)

\* re.sub(p, r'\1' + repl, s) from index i on: every non-overlapping match,
\* leftmost first, is replaced by itself followed by repl (count defaults to 0,
\* which replaces all the matches).
RECURSIVE ReSubFrom(_, _, _, _)
ReSubFrom(p, repl, s, i) ==
    IF i > Len(s) THEN <<>>
    ELSE LET e == MatchAt(s, i, p)
         IN  IF e # 0
             THEN SubSeq(s, i, e - 1) \o repl \o ReSubFrom(p, repl, s, e)
             ELSE <<s[i]>> \o ReSubFrom(p, repl, s, i + 1)

ReSub(p, repl, s) == ReSubFrom(p, repl, s, 1)

-----------------------------------------------------------------------------
(* The four insertion rules of add_file_to_project *)

build_file_pattern == <<A1>>
file_ref_pattern == <<A2>>
extensions_group_pattern == <<GH, SPLUS, ISA, SPLUS, CH, SPLUS, CM>>
sources_pattern == <<A4>>

\* '\t\t<b> /* <filename> in Sources */ = {isa = PBXBuildFile; fileRef = <f> /* <filename> */; };'
build_file_entry(b, f) == [k |-> "PBXBuildFile record", id |-> b, ref |-> f]

\* '\t\t<f> /* <filename> */ = {isa = PBXFileReference; ...; path = "<filename>"; ... };'
file_ref_entry(f) == [k |-> "PBXFileReference record", id |-> f, ref |-> NoId]

\* '\n\t\t\t\t<f> /* <filename> */,'
extensions_group_entry(f) == <<LF, [k |-> "group child", id |-> NoId, ref |-> f]>>

\* '\n\t\t\t\t<b> /* <filename> in Sources */,'
sources_entry(b) == <<LF, [k |-> "Sources member", id |-> NoId, ref |-> b]>>

\* content = re.sub(build_file_pattern, r'\1\n' + build_file_entry, content)
Sub1(text, b, f) == ReSub(build_file_pattern, <<LF, build_file_entry(b, f)>>, text)

\* content = re.sub(file_ref_pattern, r'\1\n' + file_ref_entry, content)
Sub2(text, f) == ReSub(file_ref_pattern, <<LF, file_ref_entry(f)>>, text)

\* content = re.sub(extensions_group_pattern, r'\1' + extensions_group_entry, content)
Sub3(text, f) == ReSub(extensions_group_pattern, extensions_group_entry(f), text)

\* content = re.sub(sources_pattern, r'\1' + sources_entry, content)
Sub4(text, b) == ReSub(sources_pattern, sources_entry(b), text)

-----------------------------------------------------------------------------
(* Initial states *)

Running == -1

\* the line terminators of a descriptor: "\n", "\r\n" or "\r" throughout
LineEnds == {<<LF>>, <<CR, LF>>, <<CR>>}

\* the head of the Extensions group with Color+MindSync.swift as first child,
\* for line terminator e
ExtensionsGroup(e) ==
    <<GH>> \o e \o <<TAB, ISA>> \o e \o <<TAB, CH>> \o e \o <<TAB, CM>>

\* the same with another file as first child
OtherFirstChild(e) ==
    <<GH>> \o e \o <<TAB, ISA>> \o e \o <<TAB, CH>> \o e \o <<TAB, X>> \o e \o <<TAB, CM>>

\* the lines a descriptor is made of, for line terminator e
Lines(e) ==
    { <<A1>>, <<A2>>, <<A4>>, <<X>>, ExtensionsGroup(e) }

RECURSIVE Join(_, _)
Join(ls, e) == IF ls = <<>> THEN <<>> ELSE Head(ls) \o e \o Join(Tail(ls), e)

\* the descriptors of at most n lines
Descriptors(n) ==
    UNION { { Join(ls, e) : ls \in [1..m -> Lines(e)] } : m \in 0..n, e \in LineEnds }

\* the anchors of a project and a group that is no anchor, in the order of the
\* sections of a project.pbxproj
AnchorLines(e) ==
    << <<A1>>, <<A2>>, ExtensionsGroup(e), OtherFirstChild(e), <<A4>> >>

\* the lines ls[i] with i in keep, each followed by one line of other text
RECURSIVE Pick(_, _, _)
Pick(ls, keep, i) ==
    IF i > Len(ls) THEN <<>>
    ELSE (IF i \in keep THEN <<ls[i], <<X>>>> ELSE <<>>) \o Pick(ls, keep, i + 1)

\* the project descriptors that hold any subset of these lines
Projects ==
    { Join(Pick(AnchorLines(e), keep, 1), e) :
          keep \in SUBSET (1..5), e \in LineEnds }

\* the state of the script when the interpreter reaches line 63
Fresh(exists, text, bexists, btext, r) ==
    /\ pc = "check_exists"
    /\ pbxproj_exists = exists
    /\ pbxproj = text
    /\ backup_exists = bexists
    /\ backup = btext
    /\ tmp = <<>>
    /\ content = <<>>
    /\ build_file_id = NoId
    /\ file_ref_id = NoId
    /\ exit_status = Running
    /\ run = r
    /\ first = text
    /\ orig_exists = exists
    /\ orig = text
    /\ orig_backup_exists = bexists
    /\ orig_backup = btext
    /\ writes = <<>>
    /\ called = FALSE
    /\ raised = FALSE

Init ==
    \E exists \in BOOLEAN, stale \in BOOLEAN :
        \E text \in (IF exists THEN Descriptors(MaxLines) \cup Projects ELSE {<<>>}) :
            Fresh(exists, text, stale, IF stale THEN <<X>> ELSE <<>>, 1)

-----------------------------------------------------------------------------
(* __main__, lines 63-82 *)

\* the process ends: sys.exit(1) or an uncaught exception (status 1), or the
\* end of the script (status 0)
Exit(status) ==
    /\ pc' = "done"
    /\ exit_status' = status

\* CheckExists with sys.exit() in place of sys.exit(1)
CheckExists_exit0 ==
    /\ pc = "check_exists"
    /\ IF pbxproj_exists
       THEN pc' = "backup_read" /\ exit_status' = exit_status
       ELSE Exit(0)
    /\ UNCHANGED <<pbxproj_exists, pbxproj, backup_exists, backup, tmp,
                   content, build_file_id, file_ref_id, run, first,
                   orig_exists, orig, orig_backup_exists, orig_backup, writes,
                   called, raised>>

\* lines 67-69: if not pbxproj.exists(): print(...); sys.exit(1)
CheckExists ==
    /\ pc = "check_exists"
    /\ IF pbxproj_exists
       THEN pc' = "backup_read" /\ exit_status' = exit_status
       ELSE Exit(1)
    /\ UNCHANGED <<pbxproj_exists, pbxproj, backup_exists, backup, tmp,
                   content, build_file_id, file_ref_id, run, first,
                   orig_exists, orig, orig_backup_exists, orig_backup, writes,
                   called, raised>>

\* line 73, pbxproj.read_text()
BackupRead ==
    /\ pc = "backup_read"
    /\ tmp' = ReadText(pbxproj)
    /\ pc' = "backup_write"
    /\ UNCHANGED <<pbxproj_exists, pbxproj, backup_exists, backup, content,
                   build_file_id, file_ref_id, exit_status, run, first,
                   orig_exists, orig, orig_backup_exists, orig_backup, writes,
                   called, raised>>

\* line 73, pbxproj.read_text() raises: outside the try, the process ends
BackupReadRaises ==
    /\ pc = "backup_read"
    /\ Exit(1)
    /\ UNCHANGED <<pbxproj_exists, pbxproj, backup_exists, backup, tmp,
                   content, build_file_id, file_ref_id, run, first,
                   orig_exists, orig, orig_backup_exists, orig_backup, writes,
                   called, raised>>

\* line 73, backup.write_text(...); line 74 prints
BackupWrite ==
    /\ pc = "backup_write"
    /\ backup_exists' = TRUE
    /\ backup' = WriteText(tmp)
    /\ writes' = Append(writes, "backup")
    /\ pc' = "backup_print"
    /\ UNCHANGED <<pbxproj_exists, pbxproj, tmp, content, build_file_id,
                   file_ref_id, exit_status, run, first, orig_exists, orig,
                   orig_backup_exists, orig_backup, called, raised>>

\* line 73, backup.write_text(...) raises before the backup file is opened
BackupWriteOpenRaises ==
    /\ pc = "backup_write"
    /\ Exit(1)
    /\ UNCHANGED <<pbxproj_exists, pbxproj, backup_exists, backup, tmp,
                   content, build_file_id, file_ref_id, run, first,
                   orig_exists, orig, orig_backup_exists, orig_backup, writes,
                   called, raised>>

\* line 73, backup.write_text(...) raises after the backup file was truncated
BackupWritePartial ==
    /\ pc = "backup_write"
    /\ \E left \in PartialWrites(tmp) :
           /\ backup_exists' = TRUE
           /\ backup' = left
    /\ writes' = Append(writes, "backup")
    /\ Exit(1)
    /\ UNCHANGED <<pbxproj_exists, pbxproj, tmp, content, build_file_id,
                   file_ref_id, run, first, orig_exists, orig,
                   orig_backup_exists, orig_backup, called, raised>>

\* line 74: print(f"Created backup: {backup}"), then line 77 calls
\* add_file_to_project inside the try
BackupPrint ==
    /\ pc = "backup_print"
    /\ pc' = "add_read"
    /\ called' = TRUE
    /\ UNCHANGED <<pbxproj_exists, pbxproj, backup_exists, backup, tmp,
                   content, build_file_id, file_ref_id, exit_status, run,
                   first, orig_exists, orig, orig_backup_exists, orig_backup,
                   writes, raised>>

\* line 74: print raises (outside the try): the process ends
BackupPrintRaises ==
    /\ pc = "backup_print"
    /\ Exit(1)
    /\ UNCHANGED <<pbxproj_exists, pbxproj, backup_exists, backup, tmp,
                   content, build_file_id, file_ref_id, run, first,
                   orig_exists, orig, orig_backup_exists, orig_backup, writes,
                   called, raised>>

-----------------------------------------------------------------------------
(* add_file_to_project, lines 22-61 *)

\* an exception leaves add_file_to_project, whose locals are discarded, and
\* reaches line 78
Raise ==
    /\ pc' = "restore_read"
    /\ raised' = TRUE
    /\ content' = <<>>
    /\ build_file_id' = NoId
    /\ file_ref_id' = NoId

\* line 26: content = pbxproj_path.read_text()
AddRead ==
    /\ pc = "add_read"
    /\ content' = ReadText(pbxproj)
    /\ pc' = "gen_ids"
    /\ UNCHANGED <<pbxproj_exists, pbxproj, backup_exists, backup, tmp,
                   build_file_id, file_ref_id, exit_status, run, first,
                   orig_exists, orig, orig_backup_exists, orig_backup, writes,
                   called, raised>>

\* line 26: read_text raises
AddReadRaises ==
    /\ pc = "add_read"
    /\ Raise
    /\ UNCHANGED <<pbxproj_exists, pbxproj, backup_exists, backup, tmp,
                   exit_status, run, first, orig_exists, orig,
                   orig_backup_exists, orig_backup, writes, called>>

\* generate_xcode_id: one of the 16^24 identifiers, here one of Ids
generate_xcode_id == Ids

\* lines 29-34: the two identifiers are generated and printed
GenIds ==
    /\ pc = "gen_ids"
    /\ build_file_id' \in generate_xcode_id
    /\ file_ref_id' \in generate_xcode_id
    /\ pc' = "sub1"
    /\ UNCHANGED <<pbxproj_exists, pbxproj, backup_exists, backup, tmp,
                   content, exit_status, run, first, orig_exists, orig,
                   orig_backup_exists, orig_backup, writes, called, raised>>

\* lines 37-39
Substitute1 ==
    /\ pc = "sub1"
    /\ content' = Sub1(content, build_file_id, file_ref_id)
    /\ pc' = "sub2"
    /\ UNCHANGED <<pbxproj_exists, pbxproj, backup_exists, backup, tmp,
                   build_file_id, file_ref_id, exit_status, run, first,
                   orig_exists, orig, orig_backup_exists, orig_backup, writes,
                   called, raised>>

\* lines 42-44
Substitute2 ==
    /\ pc = "sub2"
    /\ content' = Sub2(content, file_ref_id)
    /\ pc' = "sub3"
    /\ UNCHANGED <<pbxproj_exists, pbxproj, backup_exists, backup, tmp,
                   build_file_id, file_ref_id, exit_status, run, first,
                   orig_exists, orig, orig_backup_exists, orig_backup, writes,
                   called, raised>>

\* lines 47-49
Substitute3 ==
    /\ pc = "sub3"
    /\ content' = Sub3(content, file_ref_id)
    /\ pc' = "sub4"
    /\ UNCHANGED <<pbxproj_exists, pbxproj, backup_exists, backup, tmp,
                   build_file_id, file_ref_id, exit_status, run, first,
                   orig_exists, orig, orig_backup_exists, orig_backup, writes,
                   called, raised>>

\* Substitute4 with file_ref_id in place of build_file_id in sources_entry
Substitute4_file_ref_id ==
    /\ pc = "sub4"
    /\ content' = Sub4(content, file_ref_id)
    /\ pc' = "write_back"
    /\ UNCHANGED <<pbxproj_exists, pbxproj, backup_exists, backup, tmp,
                   build_file_id, file_ref_id, exit_status, run, first,
                   orig_exists, orig, orig_backup_exists, orig_backup, writes,
                   called, raised>>

\* lines 52-54
Substitute4 ==
    /\ pc = "sub4"
    /\ content' = Sub4(content, build_file_id)
    /\ pc' = "write_back"
    /\ UNCHANGED <<pbxproj_exists, pbxproj, backup_exists, backup, tmp,
                   build_file_id, file_ref_id, exit_status, run, first,
                   orig_exists, orig, orig_backup_exists, orig_backup, writes,
                   called, raised>>

\* lines 29-54: a print or a substitution raises
TransformRaises ==
    /\ pc \in {"gen_ids", "sub1", "sub2", "sub3", "sub4"}
    /\ Raise
    /\ UNCHANGED <<pbxproj_exists, pbxproj, backup_exists, backup, tmp,
                   exit_status, run, first, orig_exists, orig,
                   orig_backup_exists, orig_backup, writes, called>>

\* line 57: pbxproj_path.write_text(content)
WriteBack ==
    /\ pc = "write_back"
    /\ pbxproj' = WriteText(content)
    /\ writes' = Append(writes, "pbxproj")
    /\ pc' = "report"
    /\ UNCHANGED <<pbxproj_exists, backup_exists, backup, tmp, content,
                   build_file_id, file_ref_id, exit_status, run, first,
                   orig_exists, orig, orig_backup_exists, orig_backup, called,
                   raised>>

\* line 57: write_text raises before the descriptor is opened
WriteBackOpenRaises ==
    /\ pc = "write_back"
    /\ Raise
    /\ UNCHANGED <<pbxproj_exists, pbxproj, backup_exists, backup, tmp,
                   exit_status, run, first, orig_exists, orig,
                   orig_backup_exists, orig_backup, writes, called>>

\* line 57: write_text raises after the descriptor was truncated
WriteBackPartial ==
    /\ pc = "write_back"
    /\ pbxproj' \in PartialWrites(content)
    /\ writes' = Append(writes, "pbxproj")
    /\ Raise
    /\ UNCHANGED <<pbxproj_exists, backup_exists, backup, tmp, exit_status,
                   run, first, orig_exists, orig, orig_backup_exists,
                   orig_backup, called>>

\* lines 58-61: the success banner; the function returns and the script ends
Report ==
    /\ pc = "report"
    /\ Exit(0)
    /\ UNCHANGED <<pbxproj_exists, pbxproj, backup_exists, backup, tmp,
                   content, build_file_id, file_ref_id, run, first,
                   orig_exists, orig, orig_backup_exists, orig_backup, writes,
                   called, raised>>

\* lines 58-61: a print raises
ReportRaises ==
    /\ pc = "report"
    /\ Raise
    /\ UNCHANGED <<pbxproj_exists, pbxproj, backup_exists, backup, tmp,
                   exit_status, run, first, orig_exists, orig,
                   orig_backup_exists, orig_backup, writes, called>>

-----------------------------------------------------------------------------
(* __main__, the handler of lines 78-82 *)

\* lines 79-81: the messages, then backup.read_text()
RestoreRead ==
    /\ pc = "restore_read"
    /\ tmp' = ReadText(backup)
    /\ pc' = "restore_write"
    /\ UNCHANGED <<pbxproj_exists, pbxproj, backup_exists, backup, content,
                   build_file_id, file_ref_id, exit_status, run, first,
                   orig_exists, orig, orig_backup_exists, orig_backup, writes,
                   called, raised>>

\* lines 79-81: a print or backup.read_text() raises inside the handler
RestoreReadRaises ==
    /\ pc = "restore_read"
    /\ Exit(1)
    /\ UNCHANGED <<pbxproj_exists, pbxproj, backup_exists, backup, tmp,
                   content, build_file_id, file_ref_id, run, first,
                   orig_exists, orig, orig_backup_exists, orig_backup, writes,
                   called, raised>>

\* line 81: pbxproj.write_text(...), then line 82: sys.exit(1)
RestoreWrite ==
    /\ pc = "restore_write"
    /\ pbxproj' = WriteText(tmp)
    /\ writes' = Append(writes, "pbxproj")
    /\ Exit(1)
    /\ UNCHANGED <<pbxproj_exists, backup_exists, backup, tmp, content,
                   build_file_id, file_ref_id, run, first, orig_exists, orig,
                   orig_backup_exists, orig_backup, called, raised>>

\* line 81: write_text raises before the descriptor is opened
RestoreWriteOpenRaises ==
    /\ pc = "restore_write"
    /\ Exit(1)
    /\ UNCHANGED <<pbxproj_exists, pbxproj, backup_exists, backup, tmp,
                   content, build_file_id, file_ref_id, run, first,
                   orig_exists, orig, orig_backup_exists, orig_backup, writes,
                   called, raised>>

\* line 81: write_text raises after the descriptor was truncated
RestoreWritePartial ==
    /\ pc = "restore_write"
    /\ pbxproj' \in PartialWrites(tmp)
    /\ writes' = Append(writes, "pbxproj")
    /\ Exit(1)
    /\ UNCHANGED <<pbxproj_exists, backup_exists, backup, tmp, content,
                   build_file_id, file_ref_id, run, first, orig_exists, orig,
                   orig_backup_exists, orig_backup, called, raised>>

-----------------------------------------------------------------------------
(* Specifications *)

Next ==
    \/ CheckExists
    \/ BackupRead
    \/ BackupReadRaises
    \/ BackupWrite
    \/ BackupWriteOpenRaises
    \/ BackupWritePartial
    \/ BackupPrint
    \/ BackupPrintRaises
    \/ AddRead
    \/ AddReadRaises
    \/ GenIds
    \/ Substitute1
    \/ Substitute2
    \/ Substitute3
    \/ Substitute4
    \/ TransformRaises
    \/ WriteBack
    \/ WriteBackOpenRaises
    \/ WriteBackPartial
    \/ Report
    \/ ReportRaises
    \/ RestoreRead
    \/ RestoreReadRaises
    \/ RestoreWrite
    \/ RestoreWriteOpenRaises
    \/ RestoreWritePartial

\* one invocation of the script on any descriptor
Spec == Init /\ [][Next]_vars

\* The developer runs the script again on the descriptor that a successful
\* invocation has written.
Rerun ==
    /\ pc = "done"
    /\ exit_status = 0
    /\ run < MaxRuns
    /\ pc' = "check_exists"
    /\ tmp' = <<>>
    /\ content' = <<>>
    /\ build_file_id' = NoId
    /\ file_ref_id' = NoId
    /\ exit_status' = Running
    /\ run' = run + 1
    /\ orig_exists' = pbxproj_exists
    /\ orig' = pbxproj
    /\ orig_backup_exists' = backup_exists
    /\ orig_backup' = backup
    /\ writes' = <<>>
    /\ called' = FALSE
    /\ raised' = FALSE
    /\ UNCHANGED <<pbxproj_exists, pbxproj, backup_exists, backup, first>>

InitRerun == \E text \in Projects : Fresh(TRUE, text, FALSE, <<>>, 1)

NextRerun == Next \/ Rerun

\* up to MaxRuns invocations in succession on a project descriptor
SpecRerun == InitRerun /\ [][NextRerun]_vars

-----------------------------------------------------------------------------
(* Helpers of the properties *)

\* the indices of s at which pattern p matches
Matches(p, s) == {i \in 1..Len(s) : MatchAt(s, i, p) # 0}

\* the indices of s that hold a token of kind k
OfKind(k, s) == {i \in 1..Len(s) : s[i].k = k}

\* the four anchors are present in text s
AllAnchors(s) ==
    /\ Matches(build_file_pattern, s) # {}
    /\ Matches(file_ref_pattern, s) # {}
    /\ Matches(extensions_group_pattern, s) # {}
    /\ Matches(sources_pattern, s) # {}

HasToken(s, t) == \E i \in 1..Len(s) : s[i] = t

-----------------------------------------------------------------------------
(* C1 *)

\* C1: when a step of add_file_to_project has raised and the process has
\* ended, the descriptor on disk equals its content before the run and the
\* exit status is not 0.
C1_RestoredOnFailure ==
    (pc = "done" /\ raised) => (pbxproj = orig /\ exit_status # 0)

-----------------------------------------------------------------------------
(* C2 *)

\* the four entries of this run are in the descriptor on disk
AllFourInserted ==
    /\ HasToken(pbxproj, build_file_entry(build_file_id, file_ref_id))
    /\ HasToken(pbxproj, file_ref_entry(file_ref_id))
    /\ HasToken(pbxproj, extensions_group_entry(file_ref_id)[2])
    /\ HasToken(pbxproj, sources_entry(build_file_id)[2])

\* C2: a run ends either with status 0 and the four entries in the descriptor,
\* or with a status other than 0 and the descriptor as it was before the run.
C2_AllOrNothing ==
    pc = "done" =>
        \/ exit_status = 0 /\ AllFourInserted
        \/ exit_status # 0 /\ pbxproj_exists = orig_exists /\ pbxproj = orig

-----------------------------------------------------------------------------
(* C3 *)

\* C3: when the descriptor does not exist at the start of the run, no file is
\* written (the backup is neither created nor modified), add_file_to_project
\* is not called, and the run ends with status 1.
C3_MissingDescriptor ==
    ~orig_exists =>
        /\ writes = <<>>
        /\ ~called
        /\ pc \in {"check_exists", "done"}
        /\ backup_exists = orig_backup_exists
        /\ backup = orig_backup
        /\ ~pbxproj_exists
        /\ pc = "done" => exit_status = 1

\* a run on a missing descriptor has ended, beside a backup of an earlier run
C3_Witness == ~orig_exists /\ pc = "done" /\ orig_backup_exists

-----------------------------------------------------------------------------
(* C5 *)

\* C5: whenever the descriptor on disk differs from its content at the start
\* of the run, the backup exists and holds the content at the start of the run.
C5_BackupInvariant ==
    pbxproj # orig => (backup_exists /\ backup = orig)

-----------------------------------------------------------------------------
(* C4 *)

\* C4: a run that ends with status 0 has inserted the entry of exactly those
\* anchors that the descriptor held; a run without any failure ends with
\* status 0; when the descriptor held no anchor, the descriptor written back
\* is identical to the original content and to the content of the backup.
C4_SubsetInsertions ==
    /\ (pc = "done" /\ ~raised /\ writes = <<"backup", "pbxproj">>) => exit_status = 0
    /\ (pc = "done" /\ exit_status = 0) =>
        /\ Matches(build_file_pattern, orig) # {}
              <=> HasToken(pbxproj, build_file_entry(build_file_id, file_ref_id))
        /\ Matches(file_ref_pattern, orig) # {}
              <=> HasToken(pbxproj, file_ref_entry(file_ref_id))
        /\ Matches(extensions_group_pattern, orig) # {}
              <=> HasToken(pbxproj, extensions_group_entry(file_ref_id)[2])
        /\ Matches(sources_pattern, orig) # {}
              <=> HasToken(pbxproj, sources_entry(build_file_id)[2])
        /\ (/\ Matches(build_file_pattern, orig) = {}
            /\ Matches(file_ref_pattern, orig) = {}
            /\ Matches(extensions_group_pattern, orig) = {}
            /\ Matches(sources_pattern, orig) = {})
              => (pbxproj = orig /\ pbxproj = backup)

-----------------------------------------------------------------------------
(* C7 *)

\* the indices of the last token of each anchor in text s
AnchorEnds(s) ==
    {i \in 1..Len(s) : s[i] \in {A1, A2, A4}}
        \cup {MatchAt(s, i, extensions_group_pattern) - 1 :
                 i \in Matches(extensions_group_pattern, s)}

\* where token i of the text read ends up once an entry of two tokens has
\* been inserted after every anchor that ends before it
Moved(s, i) == i + 2 * Cardinality({e \in AnchorEnds(s) : e < i})

\* the anchor that ends at index i of the text read s is followed in the
\* descriptor written by a line break and the entry, then by what followed it
PlacedAfter(s, i, entry) ==
    LET j == Moved(s, i)
    IN  /\ Len(pbxproj) >= j + 2
        /\ pbxproj[j] = s[i]
        /\ pbxproj[j + 1] = LF
        /\ pbxproj[j + 2] = entry
        /\ i < Len(s) => (Len(pbxproj) >= j + 3 /\ pbxproj[j + 3] = s[i + 1])

\* C7: after a run that ends with status 0, each anchor of the descriptor is
\* immediately followed by a new line that holds its entry (the build-file
\* record after the Color+MindSync.swift build-file anchor, the file-reference
\* record after the View+Gestures.swift file-reference anchor, the group child
\* after the first child of the Extensions group, the build-phase member after
\* the View+Gestures.swift Sources member), before whatever followed it.
C7_Placement ==
    (pc = "done" /\ exit_status = 0) =>
        LET s == ReadText(orig)
        IN  /\ \A i \in Matches(build_file_pattern, s) :
                   PlacedAfter(s, i, build_file_entry(build_file_id, file_ref_id))
            /\ \A i \in Matches(file_ref_pattern, s) :
                   PlacedAfter(s, i, file_ref_entry(file_ref_id))
            /\ \A i \in Matches(extensions_group_pattern, s) :
                   PlacedAfter(s, MatchAt(s, i, extensions_group_pattern) - 1,
                               extensions_group_entry(file_ref_id)[2])
            /\ \A i \in Matches(sources_pattern, s) :
                   PlacedAfter(s, i, sources_entry(build_file_id)[2])

\* a run on a descriptor with the four anchors, each followed by other text,
\* has ended with status 0
C7_Witness ==
    /\ pc = "done"
    /\ exit_status = 0
    /\ AllAnchors(orig)
    /\ \A e \in AnchorEnds(ReadText(orig)) : e < Len(ReadText(orig))

-----------------------------------------------------------------------------
(* C8 *)

EntryKinds ==
    {"PBXBuildFile record", "PBXFileReference record", "group child", "Sources member"}

\* C8: after a run that ends with status 0 on a descriptor with the four
\* anchors, the inserted entries name two identifiers only: build_file_id
\* identifies the build-file record and is the Sources member, file_ref_id
\* identifies the file-reference record, is the fileRef of the build-file
\* record and is the group child; so every inserted reference has a matching
\* inserted defining record.
C8_CrossReferences ==
    (pc = "done" /\ exit_status = 0 /\ AllAnchors(orig)) =>
        /\ \A i \in OfKind("PBXBuildFile record", pbxproj) :
               /\ pbxproj[i].id = build_file_id
               /\ pbxproj[i].ref = file_ref_id
        /\ \A i \in OfKind("PBXFileReference record", pbxproj) :
               pbxproj[i].id = file_ref_id
        /\ \A i \in OfKind("group child", pbxproj) :
               /\ pbxproj[i].ref = file_ref_id
               /\ \E j \in OfKind("PBXFileReference record", pbxproj) :
                      pbxproj[j].id = pbxproj[i].ref
        /\ \A i \in OfKind("Sources member", pbxproj) :
               /\ pbxproj[i].ref = build_file_id
               /\ \E j \in OfKind("PBXBuildFile record", pbxproj) :
                      /\ pbxproj[j].id = pbxproj[i].ref
                      /\ \E n \in OfKind("PBXFileReference record", pbxproj) :
                             pbxproj[n].id = pbxproj[j].ref
        /\ \A kind \in EntryKinds : OfKind(kind, pbxproj) # {}

\* a run on a descriptor with the four anchors has ended with status 0 and
\* two different identifiers
C8_Witness ==
    /\ pc = "done"
    /\ exit_status = 0
    /\ AllAnchors(orig)
    /\ build_file_id # file_ref_id

-----------------------------------------------------------------------------
(* C9 *)

\* C9: after a run that ends with status 0, build_file_id identifies at most
\* one build-file record and is at most one Sources member, and file_ref_id
\* identifies at most one file-reference record and is at most one group
\* child, however often an anchor occurs in the descriptor.
C9_InsertedOnce ==
    (pc = "done" /\ exit_status = 0) =>
        /\ Cardinality({i \in OfKind("PBXBuildFile record", pbxproj) :
                            pbxproj[i].id = build_file_id}) <= 1
        /\ Cardinality({i \in OfKind("Sources member", pbxproj) :
                            pbxproj[i].ref = build_file_id}) <= 1
        /\ Cardinality({i \in OfKind("PBXFileReference record", pbxproj) :
                            pbxproj[i].id = file_ref_id}) <= 1
        /\ Cardinality({i \in OfKind("group child", pbxproj) :
                            pbxproj[i].ref = file_ref_id}) <= 1

-----------------------------------------------------------------------------
(* C10 *)

\* text s without the inserted entries, each with the line break before it
RECURSIVE Strip(_)
Strip(s) ==
    IF s = <<>> THEN <<>>
    ELSE IF Len(s) >= 2 /\ s[1] = LF /\ s[2].k \in EntryKinds
         THEN Strip(SubSeq(s, 3, Len(s)))
         ELSE <<Head(s)>> \o Strip(Tail(s))

\* C10: after a run that ends with status 0, the descriptor written back
\* without the inserted entries is the original content exactly, and every
\* anchor of the original content is still in it.
C10_PurelyAdditive ==
    (pc = "done" /\ exit_status = 0) =>
        /\ Strip(pbxproj) = orig
        /\ \A p \in {build_file_pattern, file_ref_pattern,
                     extensions_group_pattern, sources_pattern} :
               Cardinality(Matches(p, pbxproj)) = Cardinality(Matches(p, orig))

-----------------------------------------------------------------------------
(* C6 *)

\* index e of text s is followed by exactly two inserted entries of kind k
TwoEntriesAfter(s, e, k) ==
    /\ Len(s) >= e + 4
    /\ s[e + 1] = LF /\ s[e + 2].k = k
    /\ s[e + 3] = LF /\ s[e + 4].k = k
    /\ ~(Len(s) >= e + 6 /\ s[e + 5] = LF /\ s[e + 6].k = k)

\* C6: when the script has run twice in succession on a descriptor that held
\* the four anchors, the descriptor differs from the result of the first run
\* and holds two inserted entries after each of the four anchors.
C6_NotIdempotent ==
    (run = 2 /\ pc = "done" /\ exit_status = 0 /\ AllAnchors(first)) =>
        /\ pbxproj # orig
        /\ AllAnchors(pbxproj)
        /\ \A i \in Matches(build_file_pattern, pbxproj) :
               TwoEntriesAfter(pbxproj, i, "PBXBuildFile record")
        /\ \A i \in Matches(file_ref_pattern, pbxproj) :
               TwoEntriesAfter(pbxproj, i, "PBXFileReference record")
        /\ \A i \in Matches(extensions_group_pattern, pbxproj) :
               TwoEntriesAfter(pbxproj, MatchAt(pbxproj, i, extensions_group_pattern) - 1,
                               "group child")
        /\ \A i \in Matches(sources_pattern, pbxproj) :
               TwoEntriesAfter(pbxproj, i, "Sources member")

\* the second run in succession on a descriptor that held the four anchors
\* has ended with status 0
C6_Witness ==
    run = 2 /\ pc = "done" /\ exit_status = 0 /\ AllAnchors(first)

-----------------------------------------------------------------------------
(* What the script keeps of the content where C1, C4, C5 and C10 compare it *)
(* with the original: the original as read in text mode.                   *)

\* the descriptor at the start of the run holds no "\r"
NoCR == \A i \in 1..Len(orig) : orig[i] # CR

\* once the descriptor differs from the original, the backup holds the
\* original as read in text mode
BackupHoldsTextRead ==
    pbxproj # orig => (backup_exists /\ backup = ReadText(orig))

\* the descriptor written by a run that ends with status 0, without the
\* inserted entries, is the original as read in text mode
AdditiveOnTextRead ==
    (pc = "done" /\ exit_status = 0) => Strip(pbxproj) = ReadText(orig)

\* on descriptors without "\r" the backup and the output keep every character
ExactWithoutCR ==
    NoCR => (C4_SubsetInsertions /\ C5_BackupInvariant /\ C10_PurelyAdditive)

====
